---------------------------- MODULE Spec2Model ----------------------------
(***************************************************************************)
(* Bounded buffer shared by producer and consumer threads (src/main.rs):   *)
(* BoundedBuffer, the Mutex + two Condvars of SyncedBoundedBuffer, the     *)
(* producer and consumer routines, and the start-up code of main.          *)
(***************************************************************************)
EXTENDS Integers, Sequences, FiniteSets

(***************************************************************************)
(* Bounds of the model.                                                    *)
(***************************************************************************)
\* capacity of the buffer: the const generic BOUND, which main sets to 30
BOUND == 2
\* largest producer count that appears on the command line
MaxProducers == 2
\* largest consumer count that appears on the command line
MaxConsumers == 2
\* iterations of a routine's loop in a run with a fixed number of operations
MaxOps == 2
\* largest absolute value of an item in the buffers that are formatted
MaxItem == 11

(***************************************************************************)
(* Threads.  Producer i is spawned with item i (main.rs:110).              *)
(***************************************************************************)
Producers == {<<"p", k>> : k \in 0..(MaxProducers - 1)}
Consumers == {<<"c", k>> : k \in 0..(MaxConsumers - 1)}
Tasks == Producers \cup Consumers

Item(t) == t[2]

(***************************************************************************)
(* Command-line arguments: a token is a sequence of characters.            *)
(***************************************************************************)
DigitChars == <<"0", "1", "2", "3", "4", "5", "6", "7", "8", "9">>

IsDigit(c) == \E d \in 1..10 : DigitChars[d] = c

DigitVal(c) == (CHOOSE d \in 1..10 : DigitChars[d] = c) - 1

RECURSIVE DigitsValue(_, _)
DigitsValue(s, acc) ==
    IF s = <<>> THEN acc
    ELSE DigitsValue(Tail(s), acc * 10 + DigitVal(Head(s)))

\* str::parse::<usize>: an optional leading "+", then one or more decimal
\* digits; anything else (empty, a sign alone, "-", a letter) is an Err.
ParseUsize(tok) ==
    LET digits == IF tok # <<>> /\ Head(tok) = "+" THEN Tail(tok) ELSE tok
    IN  IF digits # <<>> /\ \A k \in 1..Len(digits) : IsDigit(digits[k])
        THEN [ok |-> TRUE, val |-> DigitsValue(digits, 0)]
        ELSE [ok |-> FALSE, val |-> 0]

RECURSIVE ToDecimal(_)
ToDecimal(n) ==
    IF n < 0 THEN <<"-">> \o ToDecimal(0 - n)
    ELSE IF n < 10 THEN <<DigitChars[n + 1]>>
    ELSE ToDecimal(n \div 10) \o <<DigitChars[(n % 10) + 1]>>

BadTokens == {<<>>, <<"x">>, <<"-", "1">>, <<"1", "x">>}

Tokens(max) == {ToDecimal(n) : n \in 0..max} \cup {<<"+", "1">>} \cup BadTokens

\* the arguments after the program name
ArgLists ==
    {<<>>}
    \cup {<<a>> : a \in Tokens(MaxProducers)}
    \cup {<<a, b>> : a \in Tokens(MaxProducers), b \in Tokens(MaxConsumers)}

(***************************************************************************)
(* BoundedBuffer                                                           *)
(***************************************************************************)
new == [array |-> [k \in 0..(BOUND - 1) |-> 0], n_items |-> 0]

empty(b) == b.n_items = 0

\* full() with the comparison off by one
fullOffByOne(b) == b.n_items = BOUND + 1

full(b) == b.n_items = BOUND

\* push without `self.n_items += 1`
pushNoCount(b, item) ==
    [array   |-> [b.array EXCEPT ![b.n_items] = item],
     n_items |-> b.n_items]

\* the body of push after its assertion
push(b, item) ==
    [array   |-> [b.array EXCEPT ![b.n_items] = item],
     n_items |-> b.n_items + 1]

\* pop that also resets the slot it has read to 0
popClearSlot(b) ==
    [buf  |-> [array   |-> [b.array EXCEPT ![b.n_items - 1] = 0],
               n_items |-> b.n_items - 1],
     item |-> b.array[b.n_items - 1]]

\* pop without `self.n_items -= 1`: the top item is returned and stays
popNoCount(b) ==
    [buf |-> b, item |-> b.array[b.n_items - 1]]

\* pop that reads the slot before it decrements: the slot above the top
popAboveTop(b) ==
    [buf  |-> [b EXCEPT !.n_items = b.n_items - 1],
     item |-> IF b.n_items < BOUND THEN b.array[b.n_items] ELSE b.array[0]]

\* pop that returns the oldest item
popOldest(b) ==
    [buf |-> [b EXCEPT !.n_items = b.n_items - 1], item |-> b.array[0]]

\* the body of pop after its assertion: the buffer left and the item returned
pop(b) ==
    LET n == b.n_items - 1
    IN  [buf |-> [b EXCEPT !.n_items = n], item |-> b.array[n]]

RECURSIVE fmtItems(_, _)
fmtItems(b, k) ==
    IF k >= b.n_items THEN <<>>
    ELSE <<",", " ">> \o ToDecimal(b.array[k]) \o fmtItems(b, k + 1)

\* Display that lists every slot of the array, whatever n_items is
fmtAllSlots(b) ==
    <<"[">>
    \o ToDecimal(b.array[0]) \o fmtItems([b EXCEPT !.n_items = BOUND], 1)
    \o <<"]">>

\* Display for BoundedBuffer
fmt(b) ==
    <<"[">>
    \o (IF b.n_items > 0 THEN ToDecimal(b.array[0]) \o fmtItems(b, 1) ELSE <<>>)
    \o <<"]">>


(***************************************************************************)
(* State                                                                   *)
(***************************************************************************)
VARIABLES
    argv,          \* the command-line arguments after the program name
    main_pc,       \* where main is
    n_producers,   \* main's n_producers, once parsed
    n_consumers,   \* main's n_consumers, once parsed
    i,             \* the index of the spawn loop main is in
    pc,            \* where each producer and consumer thread is
    bbuf,          \* the BoundedBuffer inside SyncedBoundedBuffer.buffer
    locked,        \* SyncedBoundedBuffer.buffer: the Mutex is locked
    poisoned,      \* SyncedBoundedBuffer.buffer: the Mutex is poisoned
    guards,        \* the threads that own a MutexGuard (their `bbuf`)
    not_empty,     \* the threads blocked in not_empty.wait, not yet woken
    not_full,      \* the threads blocked in not_full.wait, not yet woken
    after_wait,    \* history: the thread has returned from a wait and not yet
                   \* tested the buffer again
    popped,        \* the value returned by the pop of line 87, until dropped
    stdout,        \* the line printed last
    live,          \* history: the items pushed and not yet popped, oldest first
    any_push,      \* history: some push has completed
    any_pop,       \* history: some pop has completed
    done,          \* history: pushes (pops) of each thread, in a fixed run
    forever        \* TRUE: `loop`; FALSE: a run of MaxOps iterations per thread

vars == <<argv, main_pc, n_producers, n_consumers, i, pc, bbuf, locked,
          poisoned, guards, not_empty, not_full, after_wait, popped, stdout,
          live, any_push, any_pop, done, forever>>

main_vars == <<argv, main_pc, n_producers, n_consumers, i>>

mutex_vars == <<locked, poisoned, guards>>

Start(run_forever) ==
    /\ argv \in ArgLists
    /\ main_pc = "parse_producers"
    /\ n_producers = 0
    /\ n_consumers = 0
    /\ i = 0
    /\ pc = [t \in Tasks |-> "unspawned"]
    /\ bbuf = new
    /\ locked = FALSE
    /\ poisoned = FALSE
    /\ guards = {}
    /\ not_empty = {}
    /\ not_full = {}
    /\ after_wait = [t \in Tasks |-> FALSE]
    /\ popped = <<>>
    /\ stdout = <<>>
    /\ live = <<>>
    /\ any_push = FALSE
    /\ any_pop = FALSE
    /\ done = [t \in Tasks |-> 0]
    /\ forever = run_forever

\* the program as it is: both routines loop forever
Init == Start(TRUE)

\* a run in which every thread stops after MaxOps iterations
FixedInit == Start(FALSE)

(***************************************************************************)
(* main                                                                    *)
(***************************************************************************)
threads_untouched ==
    UNCHANGED <<pc, bbuf, locked, poisoned, guards, not_empty, not_full,
                after_wait, popped, stdout, live, any_push, any_pop, done,
                forever>>

\* line 99: args.next().expect(..).parse::<usize>().unwrap()
ParseProducers ==
    /\ main_pc = "parse_producers"
    /\ IF Len(argv) >= 1 /\ ParseUsize(argv[1]).ok
       THEN /\ n_producers' = ParseUsize(argv[1]).val
            /\ main_pc' = "parse_consumers"
       ELSE /\ main_pc' = "fatal"
            /\ UNCHANGED n_producers
    /\ UNCHANGED <<argv, n_consumers, i>>
    /\ threads_untouched

\* line 100 with unwrap_or(0) in the place of expect and unwrap
ParseConsumersLenient ==
    /\ main_pc = "parse_consumers"
    /\ n_consumers' = IF Len(argv) >= 2 THEN ParseUsize(argv[2]).val ELSE 0
    /\ main_pc' = "spawn_producers"
    /\ UNCHANGED <<argv, n_producers, i>>
    /\ threads_untouched

\* line 100
ParseConsumers ==
    /\ main_pc = "parse_consumers"
    /\ IF Len(argv) >= 2 /\ ParseUsize(argv[2]).ok
       THEN /\ n_consumers' = ParseUsize(argv[2]).val
            /\ main_pc' = "spawn_producers"
       ELSE /\ main_pc' = "fatal"
            /\ UNCHANGED n_consumers
    /\ UNCHANGED <<argv, n_producers, i>>
    /\ threads_untouched

\* lines 108-111: one turn of the loop, or its exit
SpawnProducer ==
    /\ main_pc = "spawn_producers"
    /\ IF i < n_producers
       THEN /\ pc' = [pc EXCEPT ![<<"p", i>>] = "lock"]
            /\ i' = i + 1
            /\ UNCHANGED main_pc
       ELSE /\ main_pc' = "spawn_consumers"
            /\ i' = 0
            /\ UNCHANGED pc
    /\ UNCHANGED <<argv, n_producers, n_consumers>>
    /\ UNCHANGED <<bbuf, locked, poisoned, guards, not_empty, not_full,
                   after_wait, popped, stdout, live, any_push, any_pop, done,
                forever>>

\* lines 112-115: one turn of the loop, or its exit to the joins of line 118,
\* where main blocks for good, since no routine returns
SpawnConsumer ==
    /\ main_pc = "spawn_consumers"
    /\ IF i < n_consumers
       THEN /\ pc' = [pc EXCEPT ![<<"c", i>>] = "lock"]
            /\ i' = i + 1
            /\ UNCHANGED main_pc
       ELSE /\ main_pc' = "join"
            /\ UNCHANGED <<i, pc>>
    /\ UNCHANGED <<argv, n_producers, n_consumers>>
    /\ UNCHANGED <<bbuf, locked, poisoned, guards, not_empty, not_full,
                   after_wait, popped, stdout, live, any_push, any_pop, done,
                forever>>

main == ParseProducers \/ ParseConsumers \/ SpawnProducer \/ SpawnConsumer

(***************************************************************************)
(* Mutex and Condvar as the routines use them                              *)
(***************************************************************************)
\* Mutex::lock returns only when no other guard is alive
MutexFree == ~locked

\* a run with a fixed number of operations stops a thread after MaxOps
\* iterations; the routines themselves loop forever
MayIterate(t) == forever \/ done[t] < MaxOps

count_op(t) == IF forever THEN done ELSE [done EXCEPT ![t] = @ + 1]

\* a panic of thread t: t's guard, if it has one, is dropped during the
\* unwinding, which poisons and unlocks the Mutex
Panic(t) ==
    /\ pc' = [pc EXCEPT ![t] = "panicked"]
    /\ IF t \in guards
       THEN /\ guards' = guards \ {t}
            /\ locked' = FALSE
            /\ poisoned' = TRUE
       ELSE UNCHANGED <<locked, poisoned, guards>>

\* lock().unwrap(), and the re-lock inside wait(..).unwrap(): thread t gets
\* the guard and goes on at `next`, or panics on a poisoned Mutex
Acquire(t, next) ==
    /\ MutexFree
    /\ IF poisoned
       THEN Panic(t)
       ELSE /\ locked' = TRUE
            /\ guards' = guards \cup {t}
            /\ pc' = [pc EXCEPT ![t] = next]
            /\ UNCHANGED poisoned

\* the drop of t's MutexGuard
Release(t) ==
    /\ locked' = FALSE
    /\ guards' = guards \ {t}
    /\ UNCHANGED poisoned

(***************************************************************************)
(* producer_routine                                                        *)
(***************************************************************************)
\* line 57: let mut bbuf = sbbuf.buffer.lock().unwrap()
ProducerLock(t) ==
    /\ pc[t] = "lock"
    /\ MayIterate(t)
    /\ Acquire(t, "test")
    /\ UNCHANGED <<bbuf, not_empty, not_full, after_wait, popped, stdout, live,
                   any_push, any_pop, done, forever>>
    /\ UNCHANGED main_vars

\* line 66 with `if` in the place of `while`: a thread that has returned from
\* its wait does not look at the buffer again
ProducerTestIf(t) ==
    /\ pc[t] = "test"
    /\ IF full(bbuf) /\ ~after_wait[t]
       THEN /\ Release(t)
            /\ not_full' = not_full \cup {t}
            /\ pc' = [pc EXCEPT ![t] = "waiting"]
       ELSE /\ pc' = [pc EXCEPT ![t] = "push"]
            /\ UNCHANGED <<locked, poisoned, guards, not_full>>
    /\ after_wait' = [after_wait EXCEPT ![t] = FALSE]
    /\ UNCHANGED <<bbuf, not_empty, popped, stdout, live, any_push, any_pop,
                   done, forever>>
    /\ UNCHANGED main_vars

\* line 66 with drop(bbuf) before the wait: the Mutex is unlocked first and
\* the thread becomes a waiter only in a later step
ProducerTestUnlockThenWait(t) ==
    /\ pc[t] = "test"
    /\ IF full(bbuf)
       THEN /\ Release(t)
            /\ pc' = [pc EXCEPT ![t] = "waiting"]
            /\ UNCHANGED not_full
       ELSE /\ pc' = [pc EXCEPT ![t] = "push"]
            /\ UNCHANGED <<locked, poisoned, guards, not_full>>
    /\ after_wait' = [after_wait EXCEPT ![t] = FALSE]
    /\ UNCHANGED <<bbuf, not_empty, popped, stdout, live, any_push, any_pop,
                   done, forever>>
    /\ UNCHANGED main_vars

\* line 66: the test of the while and, when the buffer is full, the entry
\* into not_full.wait, which unlocks the Mutex and blocks in one step
ProducerTest(t) ==
    /\ pc[t] = "test"
    /\ IF full(bbuf)
       THEN /\ Release(t)
            /\ not_full' = not_full \cup {t}
            /\ pc' = [pc EXCEPT ![t] = "waiting"]
       ELSE /\ pc' = [pc EXCEPT ![t] = "push"]
            /\ UNCHANGED <<locked, poisoned, guards, not_full>>
    /\ after_wait' = [after_wait EXCEPT ![t] = FALSE]
    /\ UNCHANGED <<bbuf, not_empty, popped, stdout, live, any_push, any_pop,
                   done, forever>>
    /\ UNCHANGED main_vars

\* line 66: a wait may end without any notify (a spurious wakeup)
ProducerWake(t) ==
    /\ pc[t] = "waiting"
    /\ t \in not_full
    /\ not_full' = not_full \ {t}
    /\ UNCHANGED <<pc, bbuf, locked, poisoned, guards, not_empty, after_wait,
                   popped, stdout, live, any_push, any_pop, done, forever>>
    /\ UNCHANGED main_vars

\* line 66 with `if` in the place of `while`: after the wait, straight to push
ProducerResumeNoRecheck(t) ==
    /\ pc[t] = "waiting"
    /\ t \notin not_full
    /\ Acquire(t, "push")
    /\ after_wait' = [after_wait EXCEPT ![t] = TRUE]
    /\ UNCHANGED <<bbuf, not_empty, not_full, popped, stdout, live,
                   any_push, any_pop, done, forever>>
    /\ UNCHANGED main_vars

\* line 66: a woken thread re-locks the Mutex, wait returns, and the while
\* tests full() again
ProducerResume(t) ==
    /\ pc[t] = "waiting"
    /\ t \notin not_full
    /\ Acquire(t, "test")
    /\ after_wait' = [after_wait EXCEPT ![t] = TRUE]
    /\ UNCHANGED <<bbuf, not_empty, not_full, popped, stdout, live,
                   any_push, any_pop, done, forever>>
    /\ UNCHANGED main_vars

\* line 69: bbuf.push(item), with the assertion of line 20
ProducerPush(t) ==
    /\ pc[t] = "push"
    /\ IF full(bbuf)
       THEN /\ Panic(t)
            /\ UNCHANGED <<bbuf, live, any_push, done>>
       ELSE /\ bbuf' = push(bbuf, Item(t))
            /\ live' = Append(live, Item(t))
            /\ any_push' = TRUE
            /\ done' = count_op(t)
            /\ pc' = [pc EXCEPT ![t] = "print"]
            /\ UNCHANGED <<locked, poisoned, guards>>
    /\ UNCHANGED <<not_empty, not_full, after_wait, popped, stdout, any_pop,
                   forever>>
    /\ UNCHANGED main_vars

\* line 71: println!("{}", bbuf)
ProducerPrint(t) ==
    /\ pc[t] = "print"
    /\ stdout' = fmt(bbuf)
    /\ pc' = [pc EXCEPT ![t] = "notify"]
    /\ UNCHANGED <<bbuf, locked, poisoned, guards, not_empty, not_full,
                   after_wait, popped, live, any_push, any_pop, done, forever>>
    /\ UNCHANGED main_vars

\* line 76 left out: the push is not announced
ProducerNotifyNobody(t) ==
    /\ pc[t] = "notify"
    /\ pc' = [pc EXCEPT ![t] = "unlock"]
    /\ UNCHANGED <<bbuf, locked, poisoned, guards, not_empty, not_full,
                   after_wait, popped, stdout, live, any_push, any_pop, done,
                   forever>>
    /\ UNCHANGED main_vars

\* line 76 with not_full in the place of not_empty: the push is announced on
\* the Condvar the producers wait on
ProducerNotifyWrongCondvar(t) ==
    /\ pc[t] = "notify"
    /\ not_full' = {}
    /\ pc' = [pc EXCEPT ![t] = "unlock"]
    /\ UNCHANGED <<bbuf, locked, poisoned, guards, not_empty, after_wait,
                   popped, stdout, live, any_push, any_pop, done, forever>>
    /\ UNCHANGED main_vars

\* line 76 with notify_one in the place of notify_all: one waiter, if there
\* is any, is woken
ProducerNotifyOne(t) ==
    /\ pc[t] = "notify"
    /\ \/ not_empty = {} /\ UNCHANGED not_empty
       \/ \E u \in not_empty : not_empty' = not_empty \ {u}
    /\ pc' = [pc EXCEPT ![t] = "unlock"]
    /\ UNCHANGED <<bbuf, locked, poisoned, guards, not_full, after_wait,
                   popped, stdout, live, any_push, any_pop, done, forever>>
    /\ UNCHANGED main_vars

\* line 76: sbbuf.not_empty.notify_all()
ProducerNotify(t) ==
    /\ pc[t] = "notify"
    /\ not_empty' = {}
    /\ pc' = [pc EXCEPT ![t] = "unlock"]
    /\ UNCHANGED <<bbuf, locked, poisoned, guards, not_full, after_wait,
                   popped, stdout, live, any_push, any_pop, done, forever>>
    /\ UNCHANGED main_vars

\* line 78: the MutexGuard goes out of scope, and the loop starts over
ProducerUnlock(t) ==
    /\ pc[t] = "unlock"
    /\ Release(t)
    /\ pc' = [pc EXCEPT ![t] = "lock"]
    /\ UNCHANGED <<bbuf, not_empty, not_full, after_wait, popped, stdout, live,
                   any_push, any_pop, done, forever>>
    /\ UNCHANGED main_vars

producer_routine(t) ==
    \/ ProducerLock(t)
    \/ ProducerTest(t)
    \/ ProducerWake(t)
    \/ ProducerResume(t)
    \/ ProducerPush(t)
    \/ ProducerPrint(t)
    \/ ProducerNotify(t)
    \/ ProducerUnlock(t)

(***************************************************************************)
(* consumer_routine                                                        *)
(***************************************************************************)
\* line 84
ConsumerLock(t) ==
    /\ pc[t] = "lock"
    /\ MayIterate(t)
    /\ Acquire(t, "test")
    /\ UNCHANGED <<bbuf, not_empty, not_full, after_wait, popped, stdout, live,
                   any_push, any_pop, done, forever>>
    /\ UNCHANGED main_vars

\* line 85: the test of the while and the entry into not_empty.wait
ConsumerTest(t) ==
    /\ pc[t] = "test"
    /\ IF empty(bbuf)
       THEN /\ Release(t)
            /\ not_empty' = not_empty \cup {t}
            /\ pc' = [pc EXCEPT ![t] = "waiting"]
       ELSE /\ pc' = [pc EXCEPT ![t] = "pop"]
            /\ UNCHANGED <<locked, poisoned, guards, not_empty>>
    /\ after_wait' = [after_wait EXCEPT ![t] = FALSE]
    /\ UNCHANGED <<bbuf, not_full, popped, stdout, live, any_push, any_pop,
                   done, forever>>
    /\ UNCHANGED main_vars

\* line 85: a spurious wakeup
ConsumerWake(t) ==
    /\ pc[t] = "waiting"
    /\ t \in not_empty
    /\ not_empty' = not_empty \ {t}
    /\ UNCHANGED <<pc, bbuf, locked, poisoned, guards, not_full, after_wait,
                   popped, stdout, live, any_push, any_pop, done, forever>>
    /\ UNCHANGED main_vars

\* line 85 with a wait that returns without locking the Mutex again
ConsumerResumeUnlocked(t) ==
    /\ pc[t] = "waiting"
    /\ t \notin not_empty
    /\ pc' = [pc EXCEPT ![t] = "test"]
    /\ after_wait' = [after_wait EXCEPT ![t] = TRUE]
    /\ UNCHANGED <<bbuf, locked, poisoned, guards, not_empty, not_full,
                   popped, stdout, live, any_push, any_pop, done,
                   forever>>
    /\ UNCHANGED main_vars

\* line 85 with `if` in the place of `while`: after the wait, straight to pop
ConsumerResumeNoRecheck(t) ==
    /\ pc[t] = "waiting"
    /\ t \notin not_empty
    /\ Acquire(t, "pop")
    /\ after_wait' = [after_wait EXCEPT ![t] = TRUE]
    /\ UNCHANGED <<bbuf, not_empty, not_full, popped, stdout, live,
                   any_push, any_pop, done, forever>>
    /\ UNCHANGED main_vars

\* line 85: wait returns with the Mutex locked again, and the while tests
\* empty() again
ConsumerResume(t) ==
    /\ pc[t] = "waiting"
    /\ t \notin not_empty
    /\ Acquire(t, "test")
    /\ after_wait' = [after_wait EXCEPT ![t] = TRUE]
    /\ UNCHANGED <<bbuf, not_empty, not_full, popped, stdout, live,
                   any_push, any_pop, done, forever>>
    /\ UNCHANGED main_vars

\* line 87: bbuf.pop(), with the assertion of line 25
ConsumerPop(t) ==
    /\ pc[t] = "pop"
    /\ IF empty(bbuf)
       THEN /\ Panic(t)
            /\ UNCHANGED <<bbuf, popped, live, any_pop, done>>
       ELSE /\ bbuf' = pop(bbuf).buf
            /\ popped' = <<pop(bbuf).item>>
            /\ live' = SubSeq(live, 1, Len(live) - 1)
            /\ any_pop' = TRUE
            /\ done' = count_op(t)
            /\ pc' = [pc EXCEPT ![t] = "print"]
            /\ UNCHANGED <<locked, poisoned, guards>>
    /\ UNCHANGED <<not_empty, not_full, after_wait, stdout, any_push, forever>>
    /\ UNCHANGED main_vars

\* line 88 left out: a pop prints nothing
ConsumerPrintNothing(t) ==
    /\ pc[t] = "print"
    /\ popped' = <<>>
    /\ pc' = [pc EXCEPT ![t] = "notify"]
    /\ UNCHANGED <<bbuf, locked, poisoned, guards, not_empty, not_full,
                   after_wait, stdout, live, any_push, any_pop, done, forever>>
    /\ UNCHANGED main_vars

\* line 88; the value pop returned was dropped at the end of line 87
ConsumerPrint(t) ==
    /\ pc[t] = "print"
    /\ stdout' = fmt(bbuf)
    /\ popped' = <<>>
    /\ pc' = [pc EXCEPT ![t] = "notify"]
    /\ UNCHANGED <<bbuf, locked, poisoned, guards, not_empty, not_full,
                   after_wait, live, any_push, any_pop, done, forever>>
    /\ UNCHANGED main_vars

\* line 90 left out: the pop is not announced
ConsumerNotifyNobody(t) ==
    /\ pc[t] = "notify"
    /\ pc' = [pc EXCEPT ![t] = "unlock"]
    /\ UNCHANGED <<bbuf, locked, poisoned, guards, not_empty, not_full,
                   after_wait, popped, stdout, live, any_push, any_pop, done,
                   forever>>
    /\ UNCHANGED main_vars

\* line 90 with not_empty in the place of not_full: the pop is announced on
\* the Condvar the consumers wait on
ConsumerNotifyWrongCondvar(t) ==
    /\ pc[t] = "notify"
    /\ not_empty' = {}
    /\ pc' = [pc EXCEPT ![t] = "unlock"]
    /\ UNCHANGED <<bbuf, locked, poisoned, guards, not_full, after_wait,
                   popped, stdout, live, any_push, any_pop, done, forever>>
    /\ UNCHANGED main_vars

\* line 90: sbbuf.not_full.notify_all()
ConsumerNotify(t) ==
    /\ pc[t] = "notify"
    /\ not_full' = {}
    /\ pc' = [pc EXCEPT ![t] = "unlock"]
    /\ UNCHANGED <<bbuf, locked, poisoned, guards, not_empty, after_wait,
                   popped, stdout, live, any_push, any_pop, done, forever>>
    /\ UNCHANGED main_vars

\* line 91: the MutexGuard goes out of scope, and the loop starts over
ConsumerUnlock(t) ==
    /\ pc[t] = "unlock"
    /\ Release(t)
    /\ pc' = [pc EXCEPT ![t] = "lock"]
    /\ UNCHANGED <<bbuf, not_empty, not_full, after_wait, popped, stdout, live,
                   any_push, any_pop, done, forever>>
    /\ UNCHANGED main_vars

consumer_routine(t) ==
    \/ ConsumerLock(t)
    \/ ConsumerTest(t)
    \/ ConsumerWake(t)
    \/ ConsumerResume(t)
    \/ ConsumerPop(t)
    \/ ConsumerPrint(t)
    \/ ConsumerNotify(t)
    \/ ConsumerUnlock(t)

(***************************************************************************)
(* Specifications                                                          *)
(***************************************************************************)
Next ==
    \/ main
    \/ \E t \in Producers : producer_routine(t)
    \/ \E t \in Consumers : consumer_routine(t)

Spec == Init /\ [][Next]_vars

FixedSpec == FixedInit /\ [][Next]_vars

\* the steps a thread takes while it holds the lock
ProducerRun(t) ==
    \/ ProducerTest(t)
    \/ ProducerPush(t)
    \/ ProducerPrint(t)
    \/ ProducerNotify(t)
    \/ ProducerUnlock(t)

ConsumerRun(t) ==
    \/ ConsumerTest(t)
    \/ ConsumerPop(t)
    \/ ConsumerPrint(t)
    \/ ConsumerNotify(t)
    \/ ConsumerUnlock(t)

\* the steps in which a thread takes the lock
ProducerAcquire(t) == ProducerLock(t) \/ ProducerResume(t)

ConsumerAcquire(t) == ConsumerLock(t) \/ ConsumerResume(t)

\* Every thread that can run does run, and a thread that asks for the lock
\* again and again while it keeps becoming free gets it (no starvation by the
\* lock).  Nothing makes a spurious wakeup happen.
Fairness ==
    /\ WF_vars(main)
    /\ \A t \in Producers :
           WF_vars(ProducerRun(t)) /\ SF_vars(ProducerAcquire(t))
    /\ \A t \in Consumers :
           WF_vars(ConsumerRun(t)) /\ SF_vars(ConsumerAcquire(t))

LiveSpec == Init /\ [][Next]_vars /\ Fairness

\* the program on a platform whose waits end only by a notify: every step of
\* Next but the spurious wakeups
NoSpuriousNext ==
    \/ main
    \/ \E t \in Producers : ProducerAcquire(t) \/ ProducerRun(t)
    \/ \E t \in Consumers : ConsumerAcquire(t) \/ ConsumerRun(t)

NoSpuriousSpec == Init /\ [][NoSpuriousNext]_vars

\* the values of a BoundedBuffer: any items in the slots, n_items within the
\* capacity
Buffers ==
    [array : [0..(BOUND - 1) -> (0 - MaxItem)..MaxItem], n_items : 0..BOUND]

\* some buffer, before anything has run
DisplayInit ==
    /\ argv = <<>>
    /\ main_pc = "parse_producers"
    /\ n_producers = 0
    /\ n_consumers = 0
    /\ i = 0
    /\ pc = [t \in Tasks |-> "unspawned"]
    /\ bbuf \in Buffers
    /\ locked = FALSE
    /\ poisoned = FALSE
    /\ guards = {}
    /\ not_empty = {}
    /\ not_full = {}
    /\ after_wait = [t \in Tasks |-> FALSE]
    /\ popped = <<>>
    /\ stdout = <<>>
    /\ live = <<>>
    /\ any_push = FALSE
    /\ any_pop = FALSE
    /\ done = [t \in Tasks |-> 0]
    /\ forever = TRUE

\* println!("{}", bbuf) of that buffer
Display ==
    /\ stdout' = fmt(bbuf)
    /\ UNCHANGED <<pc, bbuf, locked, poisoned, guards, not_empty, not_full,
                   after_wait, popped, live, any_push, any_pop, done, forever>>
    /\ UNCHANGED main_vars

\* Display applied to every buffer
DisplaySpec == DisplayInit /\ [][Display]_vars

(***************************************************************************)
(* Properties                                                              *)
(***************************************************************************)
\* main has parsed both counts
Parsed == main_pc \in {"spawn_producers", "spawn_consumers", "join"}

\* the places of a routine between taking the lock and giving it up, where
\* it reads or writes the buffer through its guard
InMonitor == {"test", "push", "pop", "print", "notify", "unlock"}

\* C1: in every reachable state the number of items held is between 0 and
\* the capacity
CapacityInvariant == bbuf.n_items >= 0 /\ bbuf.n_items <= BOUND

\* the buffer is full, a pop has happened before, and a producer is blocked
CapacityWitness ==
    /\ full(bbuf)
    /\ any_pop
    /\ \E t \in Producers : pc[t] = "waiting" /\ t \in not_full

\* C2: no assertion of push or pop fails: no thread has panicked, the Mutex
\* is not poisoned, a thread about to push sees a buffer that is not full and
\* a thread about to pop one that is not empty
NoPreconditionViolation ==
    /\ ~poisoned
    /\ \A t \in Tasks : pc[t] # "panicked"
    /\ \A t \in Producers : pc[t] = "push" => ~full(bbuf)
    /\ \A t \in Consumers : pc[t] = "pop" => ~empty(bbuf)

\* a producer is about to fill the last slot while another producer, woken
\* from its wait, has not yet got the lock back
NoPreconditionViolationWitness ==
    \E t, u \in Producers :
        /\ pc[t] = "push"
        /\ bbuf.n_items = BOUND - 1
        /\ any_pop
        /\ pc[u] = "waiting"
        /\ u \notin not_full

\* C3: at most one thread owns a guard, the Mutex is locked exactly when
\* one does, and the threads that are at a place where they read or write the
\* buffer are exactly the owners of a guard
MutualExclusion ==
    /\ Cardinality(guards) <= 1
    /\ locked <=> guards # {}
    /\ \A t \in Tasks : pc[t] \in InMonitor <=> t \in guards

\* a consumer holds the lock at its pop while a producer is blocked in lock()
\* and another consumer, already woken, is blocked re-locking
MutualExclusionWitness ==
    \E t, u \in Consumers : \E v \in Producers :
        /\ pc[t] = "pop"
        /\ pc[u] = "waiting" /\ u \notin not_empty
        /\ pc[v] = "lock"

\* The statement of C4 as it stands: whenever a producer waits on not_full
\* and there is a consumer (or a consumer waits on not_empty and there is a
\* producer), that very thread eventually completes its push (its pop)
EveryWaiterProceeds ==
    /\ \A t \in Producers :
           (pc[t] = "waiting" /\ n_consumers >= 1) ~> (pc[t] = "print")
    /\ \A t \in Consumers :
           (pc[t] = "waiting" /\ n_producers >= 1) ~> (pc[t] = "print")

\* C4 (amended): no wakeup is lost and the system makes progress.  A thread
\* that waits while a thread of the other kind exists eventually returns from
\* its wait holding the lock and tests the buffer again; eventually some
\* thread of its kind completes its push (pop); and when it is the only
\* thread of its kind, it completes its own.
NoLostWakeup ==
    /\ \A t \in Producers :
           (pc[t] = "waiting" /\ n_consumers >= 1)
               ~> (pc[t] = "test" /\ t \in guards)
    /\ \A t \in Consumers :
           (pc[t] = "waiting" /\ n_producers >= 1)
               ~> (pc[t] = "test" /\ t \in guards)
    /\ \A t \in Producers :
           (pc[t] = "waiting" /\ n_consumers >= 1)
               ~> (\E u \in Producers : pc[u] = "print")
    /\ \A t \in Consumers :
           (pc[t] = "waiting" /\ n_producers >= 1)
               ~> (\E u \in Consumers : pc[u] = "print")
    /\ \A t \in Producers :
           (pc[t] = "waiting" /\ n_consumers >= 1 /\ n_producers = 1)
               ~> (pc[t] = "print")
    /\ \A t \in Consumers :
           (pc[t] = "waiting" /\ n_producers >= 1 /\ n_consumers = 1)
               ~> (pc[t] = "print")

\* a producer that waited holds the lock again, after a pop, and finds room
\* in the buffer
NoLostWakeupWitness ==
    \E t \in Producers :
        /\ pc[t] = "test"
        /\ after_wait[t]
        /\ t \in guards
        /\ any_pop
        /\ ~full(bbuf)

\* C5: with spurious wakeups allowed at any moment, every return from a
\* wait leaves the thread holding the lock at the test of its while, a thread
\* reaches push or pop only from that test, and every push starts from a
\* buffer that is not full and every pop from one that is not empty
RecheckOnWakeup ==
    [][/\ \A t \in Tasks :
              (pc[t] = "waiting" /\ pc'[t] # "waiting")
                  => (pc'[t] = "test" /\ t \in guards')
       /\ \A t \in Tasks :
              (pc[t] \notin {"push", "pop"} /\ pc'[t] \in {"push", "pop"})
                  => (pc[t] = "test" /\ t \in guards)
       /\ \A t \in Producers :
              (pc[t] = "push" /\ pc'[t] # "push")
                  => (~full(bbuf) /\ pc'[t] = "print")
       /\ \A t \in Consumers :
              (pc[t] = "pop" /\ pc'[t] # "pop")
                  => (~empty(bbuf) /\ pc'[t] = "print")]_vars

\* there is no consumer, so that nothing ever notifies not_full: a producer
\* has returned from its wait all the same and, holding the lock, tests a
\* buffer that is still full
RecheckOnWakeupWitness ==
    \E t \in Producers :
        /\ Parsed
        /\ n_consumers = 0
        /\ pc[t] = "test"
        /\ after_wait[t]
        /\ t \in guards
        /\ full(bbuf)

\* C6: with no consumer, a push never completes on a full buffer: before any
\* pop has completed at most BOUND pushes have (the push number BOUND + 1
\* waits for a pop); once the buffer is full it stays full and every producer
\* that tests it blocks on not_full; and with at least one producer the
\* buffer does become full, so exactly BOUND pushes complete
ScenarioA ==
    /\ [](~any_pop => Len(live) <= BOUND)
    /\ []((Parsed /\ n_consumers = 0) => (~any_pop /\ Len(live) = bbuf.n_items))
    /\ [][(Parsed /\ n_consumers = 0 /\ full(bbuf)) => full(bbuf')]_vars
    /\ [][\A t \in Producers :
              (full(bbuf) /\ pc[t] = "test" /\ pc'[t] # "test")
                  => (pc'[t] = "waiting" /\ t \in not_full' /\ t \notin guards')]_vars
    /\ (Parsed /\ n_consumers = 0 /\ n_producers >= 1) ~> full(bbuf)

\* two producers and no consumer: BOUND pushes have completed, the buffer is
\* full and both producers are blocked on not_full
ScenarioAWitness ==
    /\ main_pc = "join"
    /\ n_consumers = 0
    /\ n_producers = 2
    /\ Len(live) = BOUND
    /\ full(bbuf)
    /\ \A t \in Producers : pc[t] = "waiting" /\ t \in not_full

\* C7: the buffer is empty until the first push and no pop completes before
\* a push has; with no producer every consumer stays before its pop, and a
\* consumer that tests an empty buffer blocks on not_empty; a push of v into
\* the empty buffer leaves exactly v in it, and a pop from the buffer holding
\* exactly v returns v and leaves the buffer empty
ScenarioB ==
    /\ [](~any_push => (empty(bbuf) /\ ~any_pop))
    /\ []((Parsed /\ n_producers = 0)
            => (/\ ~any_pop
                /\ \A t \in Consumers :
                       pc[t] \in {"unspawned", "lock", "test", "waiting"}))
    /\ [][\A t \in Consumers :
              (empty(bbuf) /\ pc[t] = "test" /\ pc'[t] # "test")
                  => (pc'[t] = "waiting" /\ t \in not_empty' /\ t \notin guards')]_vars
    /\ [][\A t \in Producers :
              (empty(bbuf) /\ pc[t] = "push" /\ pc'[t] = "print")
                  => (/\ bbuf'.n_items = 1
                      /\ bbuf'.array[0] = Item(t)
                      /\ live' = <<Item(t)>>)]_vars
    /\ [][\A t \in Consumers :
              (Len(live) = 1 /\ pc[t] = "pop" /\ pc'[t] = "print")
                  => (popped' = <<live[1]>> /\ empty(bbuf'))]_vars

\* a consumer that had to wait has popped the item 1, pushed by producer 1
\* into the empty buffer, and the buffer is empty again
ScenarioBWitness ==
    \E t \in Consumers :
        /\ pc[t] = "print"
        /\ popped = <<1>>
        /\ empty(bbuf)
        /\ bbuf.array[0] = 1
        /\ \E u \in Consumers : pc[u] = "waiting"

RECURSIVE Total(_)
Total(S) ==
    IF S = {} THEN 0
    ELSE LET t == CHOOSE u \in S : TRUE IN done[t] + Total(S \ {t})

\* pushes and pops completed so far in a run with a fixed number of operations
pushes == Total(Producers)

pops == Total(Consumers)

\* no push and no pop can complete any more: main spawns no further thread,
\* the lock is free, and every thread has finished its iterations or is
\* blocked in a wait that no notify has ended
Quiescent ==
    /\ main_pc \in {"join", "fatal"}
    /\ ~locked
    /\ \A t \in Tasks :
           \/ pc[t] = "unspawned"
           \/ pc[t] = "lock" /\ ~MayIterate(t)
           \/ pc[t] = "waiting" /\ t \in (not_full \cup not_empty)

ArgsOk ==
    /\ Len(argv) >= 2
    /\ ParseUsize(argv[1]).ok
    /\ ParseUsize(argv[2]).ok

\* C9: when a count argument is missing or does not parse, main never gets
\* past the parsing: it goes on to the fatal state, no thread is ever
\* spawned and the buffer, the lock and the output stay untouched; threads
\* exist only after both counts have parsed
StartupArgumentError ==
    /\ ~ArgsOk
           => /\ main_pc \in {"parse_producers", "parse_consumers", "fatal"}
              /\ main_pc # "fatal" => ENABLED main
              /\ \A t \in Tasks : pc[t] = "unspawned"
              /\ bbuf = new
              /\ ~locked
              /\ guards = {}
              /\ stdout = <<>>
    /\ main_pc = "fatal" => ~ArgsOk
    /\ (\E t \in Tasks : pc[t] # "unspawned") => (ArgsOk /\ Parsed)

\* the producer count parsed, the consumer count did not: main ended in the
\* fatal state
StartupArgumentErrorWitness ==
    /\ main_pc = "fatal"
    /\ Len(argv) = 2
    /\ ParseUsize(argv[1]).ok
    /\ n_producers = 2
    /\ ~ParseUsize(argv[2]).ok

\* C10: a push stores the item at index n_items and adds 1 to n_items; a pop
\* takes 1 from n_items and returns the item at the new n_items, which is the
\* item pushed last among those not yet popped; the items held are the items
\* pushed and not yet popped, in the order of their pushes; and a push of x
\* followed at once by a pop returns x and restores n_items
StackSemantics ==
    /\ [][\A t \in Producers :
              (pc[t] = "push" /\ pc'[t] = "print")
                  => (/\ bbuf'.n_items = bbuf.n_items + 1
                      /\ bbuf'.array[bbuf.n_items] = Item(t))]_vars
    /\ [][\A t \in Consumers :
              (pc[t] = "pop" /\ pc'[t] = "print")
                  => (/\ bbuf'.n_items = bbuf.n_items - 1
                      /\ popped' = <<bbuf.array[bbuf'.n_items]>>
                      /\ popped' = <<live[Len(live)]>>)]_vars
    /\ [](/\ Len(live) = bbuf.n_items
          /\ \A k \in 1..Len(live) : live[k] = bbuf.array[k - 1])
    /\ [](~full(bbuf)
            => \A x \in 0..MaxProducers :
                   /\ pop(push(bbuf, x)).item = x
                   /\ pop(push(bbuf, x)).buf.n_items = bbuf.n_items)

\* a pop has returned 1, the item pushed last, while the item 0 pushed before
\* it is still held
StackSemanticsWitness ==
    \E t \in Consumers :
        /\ pc[t] = "print"
        /\ popped = <<1>>
        /\ bbuf.n_items = 1
        /\ bbuf.array[0] = 0
        /\ live = <<0>>

\* C11: no lock is held across a wait.  A thread blocked in a wait owns no
\* guard, and every member of a wait set is such a thread; the step that
\* enters a wait starts with the guard, gives it up, leaves the Mutex unlocked
\* and puts the thread into the wait set of its Condvar, all at once; and the
\* step that ends a wait leaves the thread with the guard at the test of its
\* while
NoLockAcrossWait ==
    /\ [](\A t \in Tasks : pc[t] = "waiting" => t \notin guards)
    /\ [](\A t \in not_full \cup not_empty :
              pc[t] = "waiting" /\ t \notin guards)
    /\ [](not_full \subseteq Producers /\ not_empty \subseteq Consumers)
    /\ [][\A t \in Producers :
              (pc[t] # "waiting" /\ pc'[t] = "waiting")
                  => (/\ pc[t] = "test"
                      /\ t \in guards
                      /\ t \notin guards'
                      /\ ~locked'
                      /\ t \in not_full')]_vars
    /\ [][\A t \in Consumers :
              (pc[t] # "waiting" /\ pc'[t] = "waiting")
                  => (/\ pc[t] = "test"
                      /\ t \in guards
                      /\ t \notin guards'
                      /\ ~locked'
                      /\ t \in not_empty')]_vars
    /\ [][\A t \in Tasks :
              (pc[t] = "waiting" /\ pc'[t] # "waiting")
                  => (/\ ~locked
                      /\ locked'
                      /\ guards' = {t}
                      /\ pc'[t] = "test")]_vars

\* a producer is blocked on not_full without the guard while a consumer that
\* has returned from its wait on not_empty owns the guard and is about to test
\* the buffer again
NoLockAcrossWaitWitness ==
    \E t \in Producers : \E u \in Consumers :
        /\ pc[t] = "waiting"
        /\ t \in not_full
        /\ t \notin guards
        /\ pc[u] = "test"
        /\ after_wait[u]
        /\ guards = {u}

\* the order of the places of one iteration of a routine: lock, test, any
\* number of waits each followed by a new test, push or pop, print, notify,
\* unlock, and back to lock
IterationOrder ==
    {<<"unspawned", "lock">>, <<"lock", "test">>, <<"test", "waiting">>,
     <<"waiting", "test">>, <<"test", "push">>, <<"test", "pop">>,
     <<"push", "print">>, <<"pop", "print">>, <<"print", "notify">>,
     <<"notify", "unlock">>, <<"unlock", "lock">>}

\* C12: broadcast after mutation.  Every thread moves through its iteration
\* in the order lock, test (and waits), push or pop, print, notify, unlock;
\* from its push or pop until its unlock it owns the guard all the time; the
\* notify of a producer leaves no thread in the wait set of not_empty and
\* that of a consumer none in the wait set of not_full, and changes nothing
\* else; a guard is given up only by entering a wait or after the notify; and
\* a thread that has pushed or popped does go on to its notify
BroadcastAfterMutation ==
    /\ [][\A t \in Tasks :
              pc'[t] # pc[t] => <<pc[t], pc'[t]>> \in IterationOrder]_vars
    /\ [](\A t \in Tasks :
              pc[t] \in {"print", "notify", "unlock"} => guards = {t})
    /\ [][\A t \in Producers :
              (pc[t] = "notify" /\ pc'[t] # "notify")
                  => (/\ not_empty' = {}
                      /\ guards' = {t}
                      /\ UNCHANGED <<bbuf, not_full, locked>>)]_vars
    /\ [][\A t \in Consumers :
              (pc[t] = "notify" /\ pc'[t] # "notify")
                  => (/\ not_full' = {}
                      /\ guards' = {t}
                      /\ UNCHANGED <<bbuf, not_empty, locked>>)]_vars
    /\ [][\A t \in Tasks :
              (t \in guards /\ t \notin guards')
                  => \/ pc[t] = "unlock" /\ pc'[t] = "lock"
                     \/ pc[t] = "test" /\ pc'[t] = "waiting"]_vars
    /\ \A t \in Tasks : (pc[t] = "print") ~> (pc[t] = "unlock")

\* a producer has pushed, printed and notified and still owns the guard: both
\* consumers, which were blocked on not_empty, have left its wait set
BroadcastAfterMutationWitness ==
    \E t \in Producers :
        /\ pc[t] = "unlock"
        /\ guards = {t}
        /\ not_empty = {}
        /\ ~any_pop
        /\ bbuf.n_items = 1
        /\ \A u \in Consumers : pc[u] = "waiting"

\* C13: the stale wakeup, without any spurious wakeup.  When waits end only
\* by a notify, a producer leaves the wait set of not_full only in the notify
\* step of a consumer, which follows a pop, and a consumer that of not_empty
\* only in the notify step of a producer; a thread woken so can all the same
\* find the buffer full (empty) at its new test, as the witness shows, and
\* then it waits again and never pushes (pops)
StaleWakeup ==
    /\ [][\A t \in Producers :
              (t \in not_full /\ t \notin not_full')
                  => \E u \in Consumers :
                         /\ pc[u] = "notify" /\ pc'[u] = "unlock"
                         /\ any_pop
                         /\ ~full(bbuf)]_vars
    /\ [][\A t \in Consumers :
              (t \in not_empty /\ t \notin not_empty')
                  => \E u \in Producers :
                         /\ pc[u] = "notify" /\ pc'[u] = "unlock"
                         /\ any_push
                         /\ ~empty(bbuf)]_vars
    /\ [][\A t \in Producers :
              (after_wait[t] /\ pc[t] = "test" /\ full(bbuf) /\ pc'[t] # "test")
                  => (pc'[t] = "waiting" /\ t \in not_full')]_vars
    /\ [][\A t \in Consumers :
              (after_wait[t] /\ pc[t] = "test" /\ empty(bbuf) /\ pc'[t] # "test")
                  => (pc'[t] = "waiting" /\ t \in not_empty')]_vars
    /\ [](\A t \in Producers : pc[t] = "push" => ~full(bbuf))
    /\ [](\A t \in Consumers : pc[t] = "pop" => ~empty(bbuf))

\* two producers and one consumer: producer t, woken by the notify that
\* followed a pop, has returned from its wait and tests the buffer, which is
\* full again, its last slot filled by the other producer
StaleWakeupWitness ==
    \E t, u \in Producers :
        /\ n_producers = 2
        /\ n_consumers = 1
        /\ t # u
        /\ pc[t] = "test"
        /\ after_wait[t]
        /\ guards = {t}
        /\ any_pop
        /\ full(bbuf)
        /\ bbuf.array[BOUND - 1] = Item(u)

\* C14: threads wait only when they must, and no waiter is left behind.  A
\* producer enters the wait on not_full only in a step that starts and ends
\* with the buffer full, and a consumer that on not_empty only with the buffer
\* empty; and whenever the Mutex is unlocked, the buffer is full if some
\* producer is still in the wait set of not_full and empty if some consumer
\* is still in that of not_empty
WaitOnlyWhenNeeded ==
    /\ [][\A t \in Producers :
              (pc[t] # "waiting" /\ pc'[t] = "waiting")
                  => (full(bbuf) /\ full(bbuf') /\ t \in not_full')]_vars
    /\ [][\A t \in Consumers :
              (pc[t] # "waiting" /\ pc'[t] = "waiting")
                  => (empty(bbuf) /\ empty(bbuf') /\ t \in not_empty')]_vars
    /\ [](MutexFree => (not_full # {} => full(bbuf)))
    /\ [](MutexFree => (not_empty # {} => empty(bbuf)))

\* pops have happened, the buffer is full again and the Mutex unlocked, and
\* both producers are blocked on not_full while a consumer is about to lock
WaitOnlyWhenNeededWitness ==
    /\ MutexFree
    /\ any_pop
    /\ full(bbuf)
    /\ not_full = Producers
    /\ \A t \in Producers : pc[t] = "waiting"
    /\ \E u \in Consumers : pc[u] = "lock"

\* C15: deadlock freedom.  With at least one producer and one consumer, in
\* every reachable state main or some thread can take a step that is not a
\* spurious wakeup, and once main has spawned every thread it is a thread
\* that can: never are all threads blocked in a wait or on the Mutex.  With
\* fair scheduling pushes keep completing and pops keep completing for ever.
DeadlockFreedom ==
    /\ []((Parsed /\ n_producers >= 1 /\ n_consumers >= 1)
            => ENABLED NoSpuriousNext)
    /\ []((main_pc = "join" /\ n_producers >= 1 /\ n_consumers >= 1)
            => \/ \E t \in Producers :
                      ENABLED (ProducerAcquire(t) \/ ProducerRun(t))
               \/ \E t \in Consumers :
                      ENABLED (ConsumerAcquire(t) \/ ConsumerRun(t)))
    /\ []((main_pc = "join" /\ n_producers >= 1 /\ n_consumers >= 1)
            => ~(/\ MutexFree
                 /\ \A t \in Tasks :
                        pc[t] # "unspawned"
                            => (pc[t] = "waiting"
                                /\ t \in not_full \cup not_empty)))
    /\ (Parsed /\ n_producers >= 1 /\ n_consumers >= 1)
           ~> (\E t \in Producers : pc[t] = "print")
    /\ (Parsed /\ n_producers >= 1 /\ n_consumers >= 1)
           ~> (\E t \in Consumers : pc[t] = "print")

\* one producer and two consumers, after a pop: the buffer is empty, both
\* consumers are blocked on not_empty, and the producer, about to lock the
\* free Mutex, is the only thread that can go on
DeadlockFreedomWitness ==
    /\ main_pc = "join"
    /\ n_producers = 1
    /\ n_consumers = 2
    /\ any_pop
    /\ empty(bbuf)
    /\ MutexFree
    /\ not_empty = Consumers
    /\ pc[<<"p", 0>>] = "lock"

\* C16: conservation of items.  In every reachable state the number of items
\* held is the number of pushes completed less the number of pops completed
\* (counted up to MaxOps per thread), and so is the number of items pushed and
\* not yet popped; pops never exceed pushes, and pushes never exceed pops by
\* more than the capacity
Conservation ==
    /\ bbuf.n_items = pushes - pops
    /\ Len(live) = pushes - pops
    /\ pops <= pushes
    /\ pushes - pops <= BOUND

\* every producer has completed all its pushes, pops have completed too, and
\* the pushes exceed the pops by exactly the capacity
ConservationWitness ==
    /\ pushes = MaxProducers * MaxOps
    /\ pops >= 1
    /\ pushes - pops = BOUND
    /\ full(bbuf)

\* the items of a sequence in decimal, in order, with ", " between them
RECURSIVE CommaList(_)
CommaList(items) ==
    IF items = <<>> THEN <<>>
    ELSE IF Len(items) = 1 THEN ToDecimal(items[1])
    ELSE CommaList(SubSeq(items, 1, Len(items) - 1))
             \o <<",", " ">> \o ToDecimal(items[Len(items)])

\* the line that lists a sequence of items between brackets
Listing(items) == <<"[">> \o CommaList(items) \o <<"]">>

\* thread t prints
PrintStep(t) == pc[t] = "print" /\ pc'[t] = "notify"

\* C17: the output reflects the serialized history.  The buffer changes only
\* in the step of a push or pop, which takes the thread to its print; while a
\* thread is at its print it owns the guard and the buffer does not change;
\* the output changes only in a print step, which happens under the guard and
\* writes the listing of the items held at that moment, so each push and each
\* pop is printed exactly once and before any other change of the buffer.
\* The line a producer prints is the line before it with one item appended at
\* the end (or the first line, which has exactly one item), and the line a
\* consumer prints is the line before it with its last item, the one popped,
\* removed.  Nothing is printed before the first push has completed.
SerializedOutput ==
    /\ [][bbuf' # bbuf
              => \E t \in Tasks :
                     pc[t] \in {"push", "pop"} /\ pc'[t] = "print"]_vars
    /\ [](\A t \in Tasks : pc[t] = "print" => guards = {t})
    /\ [][\A t \in Tasks :
              pc[t] = "print"
                  => (bbuf' = bbuf /\ (pc'[t] = "print" \/ PrintStep(t)))]_vars
    /\ [][stdout' # stdout => \E t \in Tasks : PrintStep(t)]_vars
    /\ [][\A t \in Tasks :
              PrintStep(t)
                  => (/\ guards = {t} /\ guards' = {t}
                      /\ Len(live) = bbuf.n_items
                      /\ stdout' = Listing(live)
                      /\ stdout' # stdout)]_vars
    /\ [][\A t \in Producers :
              PrintStep(t)
                  => (/\ live # <<>>
                      /\ live[Len(live)] = Item(t)
                      /\ IF stdout = <<>>
                         THEN ~any_pop /\ stdout' = Listing(<<Item(t)>>)
                         ELSE stdout
                                = Listing(SubSeq(live, 1, Len(live) - 1)))]_vars
    /\ [][\A t \in Consumers :
              PrintStep(t)
                  => (/\ Len(popped) = 1
                      /\ stdout = Listing(live \o popped))]_vars
    /\ [](stdout = <<>>
            <=> \/ ~any_push
                \/ /\ ~any_pop
                   /\ bbuf.n_items = 1
                   /\ \E t \in Producers : pc[t] = "print")

\* a consumer has popped the 0 from a buffer holding 1 and 0 and has printed
\* the line [1]; the 0 is still in its slot
SerializedOutputWitness ==
    \E t \in Consumers :
        /\ pc[t] = "notify"
        /\ stdout = <<"[", "1", "]">>
        /\ live = <<1>>
        /\ bbuf.n_items = 1
        /\ bbuf.array[1] = 0

\* the slots of the array
Slots == 0..(BOUND - 1)

\* C18: frame of the buffer operations.  empty() is n_items = 0 and full() is
\* n_items = BOUND, and the test of the while, which calls them, leaves the
\* buffer as it is and goes to the wait exactly when it returned true; a push
\* writes the item into the slot at the old n_items, adds 1 to n_items and
\* leaves every other slot as it was; a pop takes 1 from n_items and leaves
\* the whole array as it was; the buffer changes only in the push or pop step
\* of the thread that owns the guard, so a step of a thread that is waiting,
\* blocked on the Mutex or not yet spawned, a wakeup included, changes
\* nothing in it
BufferFrame ==
    /\ [](empty(bbuf) <=> bbuf.n_items = 0)
    /\ [](full(bbuf) <=> bbuf.n_items = BOUND)
    /\ [][\A t \in Producers :
              (pc[t] = "test" /\ pc'[t] # "test")
                  => (/\ bbuf' = bbuf
                      /\ pc'[t] = "waiting" <=> bbuf.n_items = BOUND
                      /\ pc'[t] = "push" <=> bbuf.n_items # BOUND)]_vars
    /\ [][\A t \in Consumers :
              (pc[t] = "test" /\ pc'[t] # "test")
                  => (/\ bbuf' = bbuf
                      /\ pc'[t] = "waiting" <=> bbuf.n_items = 0
                      /\ pc'[t] = "pop" <=> bbuf.n_items # 0)]_vars
    /\ [][\A t \in Producers :
              (pc[t] = "push" /\ pc'[t] = "print")
                  => (/\ bbuf'.n_items = bbuf.n_items + 1
                      /\ bbuf'.array[bbuf.n_items] = Item(t)
                      /\ \A k \in Slots \ {bbuf.n_items} :
                             bbuf'.array[k] = bbuf.array[k])]_vars
    /\ [][\A t \in Consumers :
              (pc[t] = "pop" /\ pc'[t] = "print")
                  => (/\ bbuf'.n_items = bbuf.n_items - 1
                      /\ bbuf'.array = bbuf.array)]_vars
    /\ [][bbuf' # bbuf
              => \E t \in guards :
                     /\ pc[t] \in {"push", "pop"}
                     /\ pc'[t] = "print"
                     /\ \A u \in Tasks \ {t} : pc'[u] = pc[u]]_vars
    /\ [][\A t \in Tasks :
              (/\ pc[t] \in {"unspawned", "lock", "waiting"}
               /\ \/ pc'[t] # pc[t]
                  \/ (t \in not_full \cup not_empty)
                         # (t \in not_full' \cup not_empty'))
                  => bbuf' = bbuf]_vars

\* after a pop a producer has pushed its 1 into slot 1, above the 0 in slot 0
\* that stayed as it was, while another thread is blocked in a wait and a
\* third on the Mutex
BufferFrameWitness ==
    \E t \in Producers :
        /\ pc[t] = "print"
        /\ any_pop
        /\ bbuf.n_items = 2
        /\ bbuf.array[0] = 0
        /\ bbuf.array[1] = 1
        /\ Item(t) = 1
        /\ \E u \in Tasks : pc[u] = "waiting"
        /\ \E v \in Tasks : pc[v] = "lock"

\* the items a buffer holds, in the order of their slots
Held(b) == [k \in 1..b.n_items |-> b.array[k - 1]]

\* how many times the character c is in the line
Occurrences(line, c) == Cardinality({k \in 1..Len(line) : line[k] = c})

\* C19: Display.  The line for a buffer is the listing of the items in the
\* slots 0 .. n_items - 1, in this order, between brackets and with a comma
\* and a space between two items; it has one comma less than items; it is
\* the same whatever the slots at and above n_items hold; it is [] for an
\* empty buffer; and the line printed is this line
DisplayListing ==
    /\ fmt(bbuf) = Listing(Held(bbuf))
    /\ Head(fmt(bbuf)) = "[" /\ fmt(bbuf)[Len(fmt(bbuf))] = "]"
    /\ Occurrences(fmt(bbuf), "[") = 1 /\ Occurrences(fmt(bbuf), "]") = 1
    /\ Occurrences(fmt(bbuf), ",")
           = (IF empty(bbuf) THEN 0 ELSE bbuf.n_items - 1)
    /\ Occurrences(fmt(bbuf), " ") = Occurrences(fmt(bbuf), ",")
    /\ \A k \in Slots : \A v \in {0 - MaxItem, 0, MaxItem} :
           k >= bbuf.n_items
               => fmt([bbuf EXCEPT !.array[k] = v]) = fmt(bbuf)
    /\ \A k \in Slots :
           (k < bbuf.n_items /\ bbuf.array[k] # 0)
               => fmt([bbuf EXCEPT !.array[k] = 0]) # fmt(bbuf)
    /\ empty(bbuf) => fmt(bbuf) = <<"[", "]">>
    /\ stdout # <<>> => stdout = Listing(Held(bbuf))

\* a buffer that holds the item 10 and has a -1 left in the slot above it has
\* been printed as [10]
DisplayListingWitness ==
    /\ bbuf.n_items = 1
    /\ bbuf.array[0] = 10
    /\ bbuf.array[1] = 0 - 1
    /\ stdout = <<"[", "1", "0", "]">>

=============================================================================
